---- MODULE Spec2Model ----
(***************************************************************************)
(* A model of beancount/reports/holdings_reports.py: the OFX portfolio     *)
(* export (ExportPortfolioReport.render_ofx), the net-worth table          *)
(* (NetWorthReport.generate_table), the CSV loader (load_from_csv), the    *)
(* mutual-fund test (is_mutual_fund), the classifier (export_holdings) and *)
(* the holdings table (HoldingsReport, report_holdings).                   *)
(*                                                                         *)
(* Representation.  A Decimal is an integer number of tenths (Scale = 10), *)
(* so 25 stands for 2.5.  A product of two Decimals is rescaled by Scale   *)
(* where the code keeps it as a Decimal of the same kind (book_value,      *)
(* converted values); the TOTAL field of a transaction is kept unscaled,   *)
(* in hundredths.  Python's None is NoneStr in a string field and NoneNum  *)
(* in a numeric field, a number x being Some(x).  A ticker is a sequence   *)
(* of one-character strings, so that prefixes and letter case can be       *)
(* computed.                                                               *)
(***************************************************************************)
EXTENDS Integers, Sequences, FiniteSets, TLC

VARIABLES
    holdings_list,      \* render_ofx: the list get_assets_holdings returned
    operating_currency, \* render_ofx: options_map['operating_currency']
    promiscuous,        \* render_ofx: self.args.promiscuous
    pc,                 \* render_ofx: position in the function
    index,              \* render_ofx: the loop variable of enumerate()
    invtranlist,        \* render_ofx: invtranlist_io, a sequence of transactions
    commodities,        \* render_ofx: the set of (currency, ticker, mutual_fund)
    skipped_holdings,   \* render_ofx: the skipped list
    ignored_commodities,\* render_ofx: currencies whose ticker is undefined
    pos,                \* render_ofx: holdings the loop has consumed
    file,               \* render_ofx: what was written to the output file
    mf_ticker,          \* is_mutual_fund: the argument
    mf_result,          \* is_mutual_fund: <<>> before the call, <<value>> after
    nw_entries,         \* NetWorthReport: the holdings of the ledger
    nw_operating,       \* NetWorthReport: options_map['operating_currency']
    nw_holdings_list,   \* NetWorthReport: the local holdings_list
    nw_pos,             \* NetWorthReport: operating currencies consumed
    net_worths,         \* NetWorthReport: the rows
    nw_pc,              \* NetWorthReport: position in generate_table
    csv_header,         \* load_from_csv: the first row of the file
    csv_lines,          \* load_from_csv: the other rows
    csv_pos,            \* load_from_csv: rows consumed
    csv_yielded,        \* load_from_csv: the holdings yielded so far
    csv_pc,             \* load_from_csv: position in the generator
    ex_holdings_list,   \* export_holdings: the list get_assets_holdings returned
    ex_promiscuous,     \* export_holdings: the promiscuous argument
    ex_pos,             \* export_holdings: elements the running loop has consumed
    holdings_export,    \* export_holdings: the bucket exported individually
    holdings_convert,   \* export_holdings: the bucket of cash-like holdings
    holdings_ignore,    \* export_holdings: the bucket of ignored holdings
    exported,           \* export_holdings: the ExportEntry tuples
    ex_pc,              \* export_holdings: position in the function
    hr_args,            \* HoldingsReport: the parsed arguments
    hr_entries,         \* HoldingsReport: the holdings of the ledger
    hr_holdings_list,   \* HoldingsReport: holdings_list of report_holdings
    hr_field_spec,      \* HoldingsReport: field_spec of report_holdings
    hr_table,           \* HoldingsReport: <<>> or <<the table returned>>
    hr_pc               \* HoldingsReport: position in the report

vars_mf == <<mf_ticker, mf_result>>

vars_nw == <<nw_entries, nw_operating, nw_holdings_list, nw_pos, net_worths,
             nw_pc>>

vars_csv == <<csv_header, csv_lines, csv_pos, csv_yielded, csv_pc>>

vars_ofx == <<holdings_list, operating_currency, promiscuous, pc, index,
              invtranlist, commodities, skipped_holdings,
              ignored_commodities, pos, file>>

vars_ex == <<ex_holdings_list, ex_promiscuous, ex_pos, holdings_export,
             holdings_convert, holdings_ignore, exported, ex_pc>>

vars_hr == <<hr_args, hr_entries, hr_holdings_list, hr_field_spec, hr_table,
             hr_pc>>

vars == <<vars_ofx, vars_mf, vars_nw, vars_csv, vars_ex, vars_hr>>

---------------------------------------------------------------------------
(* Bounds of the model. *)

MaxHoldings == 3

---------------------------------------------------------------------------
(* Values. *)

Scale == 10

NoneStr == "<None>"
NoneNum == <<>>
Some(x) == <<x>>
Val(o) == o[1]

\* Python's a * b on two Decimals of which one may be None-free; rescaled.
Mul(a, b) == (a * b) \div Scale

Abs(x) == IF x < 0 THEN -x ELSE x

\* n / d rounded to an integer, ties to the even neighbour (the rounding of
\* Decimal.quantize under the default context).
RoundHalfEven(n, d) ==
    LET nn == IF d < 0 THEN -n ELSE n
        dd == Abs(d)
        q  == nn \div dd
        r  == nn - q * dd
    IN  IF 2 * r < dd THEN q
        ELSE IF 2 * r > dd THEN q + 1
        ELSE IF q % 2 = 0 THEN q ELSE q + 1

---------------------------------------------------------------------------
(* The ledger: commodities, their ticker metadata, prices, display context *)

\* Currency codes in ascending order of Python's string comparison.
CurrencyOrder ==
    <<"AAA", "CAD", "CSH", "EMP", "EUR", "GBP", "GGG", "HOME", "RBF",
      "USD", "VFX", "VMMXX">>

CurrencyRank(c) == CHOOSE i \in 1..Len(CurrencyOrder) : CurrencyOrder[i] = c

TickerNone      == <<"<None>">>
TickerUndefined == <<"<undefined>">>

\* getters.get_values_meta(commodities_map, 'ticker', default=undefined):
\* one entry per commodity of the ledger; USD and GBP have no commodity entry.
tickers ==
    [c \in {"AAA", "CAD", "CSH", "EMP", "EUR", "GGG", "HOME", "RBF", "VFX"} |->
        CASE c = "AAA"  -> <<"A", "A", "A">>
          [] c = "GGG"  -> <<"N", ":", "G">>
          [] c = "VFX"  -> <<"M", "U", "T", "F", ":", "V">>
          [] c = "RBF"  -> <<"M", "U", "T", "F", "_", "C", "A", ":", "R">>
          [] c = "CSH"  -> <<"C", "a", "s", "H">>
          [] c = "EMP"  -> <<>>
          [] OTHER      -> TickerUndefined]

\* tickers.get(currency, None)
TickersGet(currency) ==
    IF currency \in DOMAIN tickers THEN tickers[currency] ELSE TickerNone

\* The price map: the latest rate of (base, quote), in tenths.
price_map ==
    [p \in {<<"EUR", "USD">>, <<"EUR", "CAD">>, <<"USD", "CAD">>,
            <<"CAD", "USD">>} |->
        CASE p = <<"EUR", "USD">> -> 20
          [] p = <<"EUR", "CAD">> -> 30
          [] p = <<"USD", "CAD">> -> 10
          [] OTHER                -> 10]

\* The display context: the number of fractional digits of a currency.
DisplayDigits(currency) == IF currency = "CAD" THEN 0 ELSE 1

Accounts == {"Assets:Broker", "Assets:Bank"}
Title == "My Ledger"

\* A raw holding, as get_final_holdings builds it.
Holding(account, number, currency, cost_currency, cost_number, price_number) ==
    [account       |-> account,
     number        |-> number,
     currency      |-> currency,
     cost_currency |-> cost_currency,
     cost_number   |-> cost_number,
     price_number  |-> price_number,
     book_value    |-> IF number = NoneNum \/ cost_number = NoneNum
                       THEN NoneNum
                       ELSE Some(Mul(Val(number), Val(cost_number))),
     market_value  |-> IF number = NoneNum \/ price_number = NoneNum
                       THEN NoneNum
                       ELSE Some(Mul(Val(number), Val(price_number))),
     price_date    |-> IF price_number = NoneNum THEN NoneStr
                       ELSE "2014-06-01"]

\* The holdings a ledger may yield.  A holding with a cost currency has a
\* cost and a price; a holding without cost basis has neither.
HoldingPool ==
    { Holding("Assets:Broker", Some(20), "AAA", "USD", Some(15), Some(25)),
      Holding("Assets:Broker", Some(10), "GGG", "USD", Some(30), Some(30)),
      Holding("Assets:Broker", Some(10), "VFX", "USD", Some(20), Some(25)),
      Holding("Assets:Bank",   Some(10), "CSH", "USD", Some(10), Some(10)),
      Holding("Assets:Bank",   Some(50), "USD", "USD", Some(10), Some(10)),
      Holding("Assets:Broker", Some(-50), "USD", "USD", Some(10), Some(10)),
      Holding("Assets:Bank",   Some(5),  "EUR", "EUR", Some(10), Some(10)),
      Holding("Assets:Bank",   Some(10), "GBP", "GBP", Some(10), Some(10)),
      Holding("Assets:Broker", Some(10), "AAA", NoneStr, NoneNum, NoneNum),
      Holding("Assets:Broker", Some(10), "EMP", "USD", Some(10), Some(10)),
      Holding("Assets:Broker", Some(10), "HOME", "USD", Some(40), Some(50)) }

SeqsUpTo(S, n) == UNION { [1..k -> S] : k \in 0..n }

OperatingCurrencyOptions == { <<>>, <<"USD">>, <<"CAD", "USD">> }

---------------------------------------------------------------------------
(* Strings as character sequences: letter case, order, regular expression *)

LowerChar(c) ==
    CASE c = "A" -> "a" [] c = "C" -> "c" [] c = "F" -> "f" [] c = "G" -> "g"
      [] c = "H" -> "h" [] c = "M" -> "m" [] c = "N" -> "n" [] c = "R" -> "r"
      [] c = "S" -> "s" [] c = "T" -> "t" [] c = "U" -> "u" [] c = "V" -> "v"
      [] c = "X" -> "x" [] OTHER -> c

\* str.lower()
Lower(s) == [i \in 1..Len(s) |-> LowerChar(s[i])]

\* isinstance(ticker, str) and ticker.lower() == "cash"
IsCashMarker(ticker) ==
    /\ ticker # TickerNone
    /\ ticker # TickerUndefined
    /\ Lower(ticker) = <<"c", "a", "s", "h">>

\* Characters in ascending code point order.
CharOrder ==
    <<"\n", ":", "A", "C", "F", "G", "H", "M", "N", "R", "S", "T", "U", "V",
      "X", "_", "a", "c", "h", "s">>

CharRank(c) == CHOOSE i \in 1..Len(CharOrder) : CharOrder[i] = c

\* Python's s < t on strings.
RECURSIVE StrLess(_, _)
StrLess(s, t) ==
    IF t = <<>> THEN FALSE
    ELSE IF s = <<>> THEN TRUE
    ELSE IF Head(s) # Head(t) THEN CharRank(Head(s)) < CharRank(Head(t))
    ELSE StrLess(Tail(s), Tail(t))

\* A regular expression is a sequence of tokens: a literal character, or
\* ".*" (any run of characters other than a line break).
Lit(c) == [kind |-> "lit", ch |-> c]
DotStar == [kind |-> "dotstar", ch |-> ""]

\* re.match: the pattern from token i matches the text from position j on; the
\* text may go on after the match.
RECURSIVE MatchAt(_, _, _, _)
MatchAt(pat, i, text, j) ==
    IF i > Len(pat) THEN TRUE
    ELSE IF pat[i].kind = "lit"
         THEN /\ j <= Len(text)
              /\ text[j] = pat[i].ch
              /\ MatchAt(pat, i + 1, text, j + 1)
         ELSE \E k \in j..(Len(text) + 1) :
                 /\ \A m \in j..(k - 1) : text[m] # "\n"
                 /\ MatchAt(pat, i + 1, text, k)

\* 'MUTF.*:'
MutualFundPattern ==
    <<Lit("M"), Lit("U"), Lit("T"), Lit("F"), DotStar, Lit(":")>>

\* The pattern of a plausible slip: 'MUTF:'
MutualFundPatternStrict ==
    <<Lit("M"), Lit("U"), Lit("T"), Lit("F"), Lit(":")>>

is_mutual_fund_strict(ticker) == MatchAt(MutualFundPatternStrict, 1, ticker, 1)

is_mutual_fund(ticker) == MatchAt(MutualFundPattern, 1, ticker, 1)

---------------------------------------------------------------------------
(* Collaborators that are not in this file: the converter, the quantizer *)

MulOpt(o, rate) == IF o = NoneNum THEN NoneNum ELSE Some(Mul(Val(o), rate))

\* holdings.convert_to_currency on one holding: unchanged when it is valued in
\* the target currency or when the price map has no rate.
ConvertHolding(target_currency, holding) ==
    IF holding.cost_currency = target_currency THEN holding
    ELSE IF <<holding.cost_currency, target_currency>> \in DOMAIN price_map
    THEN LET rate == price_map[<<holding.cost_currency, target_currency>>]
         IN  [holding EXCEPT !.cost_currency = target_currency,
                             !.cost_number   = MulOpt(@, rate),
                             !.price_number  = MulOpt(@, rate),
                             !.book_value    = MulOpt(@, rate),
                             !.market_value  = MulOpt(@, rate)]
    ELSE holding

convert_to_currency(target_currency, holdings) ==
    [i \in 1..Len(holdings) |-> ConvertHolding(target_currency, holdings[i])]

\* The quantum of a currency in tenths: 10 for no fractional digit, 1 for one.
Quantum(currency) == IF DisplayDigits(currency) = 0 THEN Scale ELSE 1

\* dcontext.quantize(number, currency)
Quantize(number, currency) ==
    RoundHalfEven(number, Quantum(currency)) * Quantum(currency)

\* dcontext.quantize(a / b, currency), b nonzero
QuantizeQuotient(a, b, currency) ==
    RoundHalfEven(a * Scale, b * Quantum(currency)) * Quantum(currency)

---------------------------------------------------------------------------
(* ExportPortfolioReport.render_ofx *)

CASH_EQUIVALENT_CURRENCY == <<"V", "M", "M", "X", "X">>
CASH_EQUIVALENT_CURRENCY_CODE == "VMMXX"
CASH_EQUIVALENT_MFUND == TRUE

\* datetime.datetime.now(), the generation time.
Now == [day |-> 20, hour |-> 14, minute |-> 30, second |-> 5,
        microsecond |-> 123456]

TradeDelayDays == 2

\* now.replace(hour=9, minute=0, second=0, microsecond=0)
Morning(now) ==
    [now EXCEPT !.hour = 9, !.minute = 0, !.second = 0, !.microsecond = 0]

\* morning - datetime.timedelta(days=2)
TradeDate(now) == [Morning(now) EXCEPT !.day = @ - TradeDelayDays]

\* render_ofx_date: the fields of '%Y%m%d%H%M%S' and the milliseconds.
render_ofx_date(dtime) ==
    <<dtime.day, dtime.hour, dtime.minute, dtime.second,
      dtime.microsecond \div 1000>>

\* The test that sends a holding to the skipped list.
SkipHoldingNoUndefinedTest(holding, ticker) ==
    \/ holding.currency = holding.cost_currency
    \/ holding.cost_number = NoneNum
    \/ ticker = TickerNone \/ ticker = <<>>

SkipHolding(holding, ticker) ==
    \/ holding.currency = holding.cost_currency
    \/ holding.cost_number = NoneNum
    \/ ticker = TickerNone \/ ticker = <<>>       \* not ticker
    \/ ticker = TickerUndefined                   \* ticker is undefined

MemoAlways(holding, args_promiscuous) == holding.account

\* memo = holding.account if self.args.promiscuous else ''
Memo(holding, args_promiscuous) ==
    IF args_promiscuous THEN holding.account ELSE ""

\* The TRANSACTION template filled for one holding; idx is enumerate's index.
BuyTransaction(holding, ticker, idx, args_promiscuous) ==
    [txntype   |-> IF is_mutual_fund(ticker) THEN "BUYMF" ELSE "BUYSTOCK",
     fitid     |-> idx + 1,
     dttrade   |-> render_ofx_date(TradeDate(Now)),
     memo      |-> Memo(holding, args_promiscuous),
     uniqueid  |-> ticker,
     units     |-> holding.number,
     unitprice |-> holding.cost_number,
     fee       |-> 0,
     total     |-> -(Val(holding.number) * Val(holding.cost_number) + 0),
     buytype   |-> "BUY"]

IncludedHoldingsAll(converted_holdings, cash_currency) == converted_holdings

\* The converted holdings whose cost currency is the cash currency.
IncludedHoldings(converted_holdings, cash_currency) ==
    SelectSeq(converted_holdings,
              LAMBDA holding : holding.cost_currency = cash_currency)

RECURSIVE SumSeq(_)
SumSeq(numbers) ==
    IF numbers = <<>> THEN 0 ELSE Head(numbers) + SumSeq(Tail(numbers))

BookValues(holdings) == [i \in 1..Len(holdings) |-> holdings[i].book_value]
MarketValues(holdings) == [i \in 1..Len(holdings) |-> holdings[i].market_value]

\* sum(...) of a list of Decimals (TypeError if one of them is None).
SumDefined(values) ==
    \A i \in 1..Len(values) : values[i] # NoneNum
SumValues(values) == SumSeq([i \in 1..Len(values) |-> Val(values[i])])

\* The TRANSACTION template filled for the cash equivalent.
CashTransaction(book_value, market_value, cash_currency, idx) ==
    LET units     == Quantize(market_value, cash_currency)
        unitprice == QuantizeQuotient(book_value, market_value, cash_currency)
    IN  [txntype   |-> IF CASH_EQUIVALENT_MFUND THEN "BUYMF" ELSE "BUYSTOCK",
         fitid     |-> idx + 1,
         dttrade   |-> render_ofx_date(TradeDate(Now)),
         memo      |-> "",
         uniqueid  |-> CASH_EQUIVALENT_CURRENCY,
         units     |-> Some(units),
         unitprice |-> Some(unitprice),
         fee       |-> 0,
         total     |-> -(units * unitprice + 0),
         buytype   |-> "BUY"]

\* The triple added to commodities for the cash equivalent.
CashCommodity ==
    <<CASH_EQUIVALENT_CURRENCY_CODE, CASH_EQUIVALENT_CURRENCY, FALSE>>

\* Python's a < b on (currency, ticker, mutual_fund) tuples.
TripleLess(a, b) ==
    \/ CurrencyRank(a[1]) < CurrencyRank(b[1])
    \/ a[1] = b[1] /\ StrLess(a[2], b[2])
    \/ a[1] = b[1] /\ a[2] = b[2] /\ a[3] = FALSE /\ b[3] = TRUE

\* sorted(commodities)
RECURSIVE Sorted(_)
Sorted(S) ==
    IF S = {} THEN <<>>
    ELSE LET least == CHOOSE a \in S : \A b \in S \ {a} : TripleLess(a, b)
         IN  <<least>> \o Sorted(S \ {least})

\* The SECURITY template filled for one triple.
Security(triple) ==
    [infotype |-> IF triple[3] THEN "MFINFO" ELSE "STOCKINFO",
     uniqueid |-> triple[1],
     secname  |-> triple[1],
     ticker   |-> triple[2]]

SecList(S) ==
    LET sorted == Sorted(S)
    IN  [i \in 1..Len(sorted) |-> Security(sorted[i])]

\* account = options_map['title'] if self.args.promiscuous else ''
AccountId(title, args_promiscuous) == IF args_promiscuous THEN title ELSE ""

\* The TEMPLATE filled with the transactions and the securities.
Contents(title, args_promiscuous, transactions, securities) ==
    [dtserver    |-> render_ofx_date(Morning(Now)),
     dtasof      |-> render_ofx_date(Morning(Now)),
     broker      |-> "Beancount",
     account     |-> AccountId(title, args_promiscuous),
     dtstart     |-> render_ofx_date(Morning(Now)),
     dtend       |-> render_ofx_date(Morning(Now)),
     invtranlist |-> transactions,
     seclist     |-> SecList(securities)]

\* The locals the loop builds.
LoopState(transactions, securities, skipped, ignored) ==
    [invtranlist         |-> transactions,
     commodities         |-> securities,
     skipped_holdings    |-> skipped,
     ignored_commodities |-> ignored]

\* The body of "for index, holding in enumerate(holdings_list)".
LoopBody(st, holding, idx, args_promiscuous) ==
    LET ticker  == TickersGet(holding.currency)
        ignored == IF ticker = TickerUndefined
                   THEN st.ignored_commodities \cup {holding.currency}
                   ELSE st.ignored_commodities
    IN  IF SkipHolding(holding, ticker)
        THEN LoopState(st.invtranlist, st.commodities,
                       Append(st.skipped_holdings, holding), ignored)
        ELSE LoopState(Append(st.invtranlist,
                              BuyTransaction(holding, ticker, idx,
                                             args_promiscuous)),
                       st.commodities \cup
                          {<<holding.currency, ticker, is_mutual_fund(ticker)>>},
                       st.skipped_holdings, ignored)

CashBranchAlways(operating_currencies) == TRUE

\* if options_map['operating_currency']:
CashBranch(operating_currencies) == operating_currencies # <<>>

\* options_map['operating_currency'][0]
CashCurrency(operating_currencies) ==
    IF operating_currencies = <<>> THEN NoneStr ELSE operating_currencies[1]

Included(skipped, operating_currencies) ==
    IncludedHoldings(
        convert_to_currency(CashCurrency(operating_currencies), skipped),
        CashCurrency(operating_currencies))

\* The cash-equivalent branch raises: no first operating currency, a sum over
\* None, or a division by a zero market value.
CashRaises(skipped, operating_currencies) ==
    IF operating_currencies = <<>> THEN TRUE
    ELSE IF ~SumDefined(BookValues(Included(skipped, operating_currencies)))
    THEN TRUE
    ELSE IF ~SumDefined(MarketValues(Included(skipped, operating_currencies)))
    THEN TRUE
    ELSE SumValues(MarketValues(Included(skipped, operating_currencies))) = 0

\* The cash-equivalent branch when nothing raises.
CashBody(st, operating_currencies, idx) ==
    LET included == Included(st.skipped_holdings, operating_currencies)
    IN  LoopState(Append(st.invtranlist,
                         CashTransaction(SumValues(BookValues(included)),
                                         SumValues(MarketValues(included)),
                                         CashCurrency(operating_currencies),
                                         idx)),
                  st.commodities \cup {CashCommodity},
                  st.skipped_holdings, st.ignored_commodities)

\* The loop over holdings[i..], as one function.
RECURSIVE LoopFrom(_, _, _, _)
LoopFrom(st, holdings, i, args_promiscuous) ==
    IF i > Len(holdings) THEN st
    ELSE LoopFrom(LoopBody(st, holdings[i], i - 1, args_promiscuous),
                  holdings, i + 1, args_promiscuous)

\* render_ofx as one function: <<contents>> as written to the file, or <<>>
\* when an exception left it before file.write.
RenderOfx(holdings, operating_currencies, args_promiscuous, title) ==
    LET st  == LoopFrom(LoopState(<<>>, {}, <<>>, {}), holdings, 1,
                        args_promiscuous)
        idx == IF holdings = <<>> THEN 0 ELSE Len(holdings) - 1
    IN  IF CashBranch(operating_currencies)
        THEN IF CashRaises(st.skipped_holdings, operating_currencies)
             THEN <<>>
             ELSE LET st2 == CashBody(st, operating_currencies, idx)
                  IN  <<Contents(title, args_promiscuous, st2.invtranlist,
                                 st2.commodities)>>
        ELSE <<Contents(title, args_promiscuous, st.invtranlist,
                        st.commodities)>>

Locals == LoopState(invtranlist, commodities, skipped_holdings,
                    ignored_commodities)

SetLocals(st) ==
    /\ invtranlist' = st.invtranlist
    /\ commodities' = st.commodities
    /\ skipped_holdings' = st.skipped_holdings
    /\ ignored_commodities' = st.ignored_commodities

InitOfx ==
    /\ holdings_list \in SeqsUpTo(HoldingPool, MaxHoldings)
    /\ operating_currency \in OperatingCurrencyOptions
    /\ promiscuous \in BOOLEAN
    /\ pc = "loop"
    /\ index = 0
    /\ pos = 0
    /\ invtranlist = <<>>
    /\ commodities = {}
    /\ skipped_holdings = <<>>
    /\ ignored_commodities = {}
    /\ file = <<>>

\* render_ofx is not running.
IdleOfx ==
    /\ holdings_list = <<>>
    /\ operating_currency = <<>>
    /\ promiscuous = FALSE
    /\ pc = "idle"
    /\ index = 0
    /\ pos = 0
    /\ invtranlist = <<>>
    /\ commodities = {}
    /\ skipped_holdings = <<>>
    /\ ignored_commodities = {}
    /\ file = <<>>

\* One iteration of the loop over the holdings.
LoopIteration ==
    /\ pc = "loop"
    /\ pos < Len(holdings_list)
    /\ index' = pos
    /\ pos' = pos + 1
    /\ SetLocals(LoopBody(Locals, holdings_list[pos + 1], pos, promiscuous))
    /\ UNCHANGED <<holdings_list, operating_currency, promiscuous, pc, file>>
    /\ UNCHANGED <<vars_mf, vars_nw, vars_csv, vars_ex, vars_hr>>

\* The loop is exhausted; the cash-equivalent branch is taken or not.
LoopExit ==
    /\ pc = "loop"
    /\ pos = Len(holdings_list)
    /\ pc' = IF CashBranch(operating_currency) THEN "cash" ELSE "seclist"
    /\ UNCHANGED <<holdings_list, operating_currency, promiscuous, index, pos,
                   invtranlist, commodities, skipped_holdings,
                   ignored_commodities, file>>
    /\ UNCHANGED <<vars_mf, vars_nw, vars_csv, vars_ex, vars_hr>>

\* The cash-equivalent branch, when nothing raises.
CashEquivalent ==
    /\ pc = "cash"
    /\ ~CashRaises(skipped_holdings, operating_currency)
    /\ SetLocals(CashBody(Locals, operating_currency, index))
    /\ pc' = "seclist"
    /\ UNCHANGED <<holdings_list, operating_currency, promiscuous, index, pos,
                   file>>
    /\ UNCHANGED <<vars_mf, vars_nw, vars_csv, vars_ex, vars_hr>>

\* The cash-equivalent branch, when an exception leaves render_ofx.
CashEquivalentRaises ==
    /\ pc = "cash"
    /\ CashRaises(skipped_holdings, operating_currency)
    /\ pc' = "error"
    /\ UNCHANGED <<holdings_list, operating_currency, promiscuous, index, pos,
                   invtranlist, commodities, skipped_holdings,
                   ignored_commodities, file>>
    /\ UNCHANGED <<vars_mf, vars_nw, vars_csv, vars_ex, vars_hr>>

\* The security list, the top-level template and file.write.
WriteFile ==
    /\ pc = "seclist"
    /\ file' = <<Contents(Title, promiscuous, invtranlist, commodities)>>
    /\ pc' = "done"
    /\ UNCHANGED <<holdings_list, operating_currency, promiscuous, index, pos,
                   invtranlist, commodities, skipped_holdings,
                   ignored_commodities>>
    /\ UNCHANGED <<vars_mf, vars_nw, vars_csv, vars_ex, vars_hr>>

NextOfx ==
    \/ LoopIteration
    \/ LoopExit
    \/ CashEquivalent
    \/ CashEquivalentRaises
    \/ WriteFile

---------------------------------------------------------------------------
(* is_mutual_fund, called on its own *)

MaxSuffixLen == 3

TickerPrefixes ==
    { <<>>, <<"M", "U", "T">>, <<"M", "U", "T", "F">>, <<"m", "u", "t", "f">>,
      <<"X", "M", "U", "T", "F">>, <<"M", "U", "T", "X">> }

TickerSuffixChars == {":", "X", "\n"}

\* The tickers is_mutual_fund is called on.
TickerInputs ==
    { p \o x : p \in TickerPrefixes, x \in SeqsUpTo(TickerSuffixChars, MaxSuffixLen) }

InitMF ==
    /\ mf_ticker \in TickerInputs
    /\ mf_result = <<>>

IdleMF ==
    /\ mf_ticker = <<>>
    /\ mf_result = <<FALSE>>

\* The call is_mutual_fund(ticker).
CallIsMutualFund ==
    /\ mf_result = <<>>
    /\ mf_result' = <<is_mutual_fund(mf_ticker)>>
    /\ UNCHANGED <<mf_ticker, vars_ofx, vars_nw, vars_csv, vars_ex, vars_hr>>

---------------------------------------------------------------------------
(* NetWorthReport.generate_table *)

\* sum(...) over the values that are not None; None when there is none.
SumOpt(values) ==
    LET defined == SelectSeq(values, LAMBDA v : v # NoneNum)
    IN  IF defined = <<>> THEN NoneNum ELSE Some(SumValues(defined))

\* The distinct cost currencies of holdings[i..], in order of first occurrence.
RECURSIVE KeysFrom(_, _, _)
KeysFrom(holdings, i, seen) ==
    IF i > Len(holdings) THEN <<>>
    ELSE IF holdings[i].cost_currency \in seen
    THEN KeysFrom(holdings, i + 1, seen)
    ELSE <<holdings[i].cost_currency>>
            \o KeysFrom(holdings, i + 1, seen \cup {holdings[i].cost_currency})

\* One group of holdings combined into one holding: units are summed when the
\* group shares one currency and one cost currency, otherwise the row keeps
\* only its values; the average cost and price are recomputed from the sums.
AggregateGroup(group) ==
    LET same   == \A i \in 1..Len(group) :
                     /\ group[i].currency = group[1].currency
                     /\ group[i].cost_currency = group[1].cost_currency
        number == IF same /\ \A i \in 1..Len(group) : group[i].number # NoneNum
                  THEN Some(SumSeq([i \in 1..Len(group) |-> Val(group[i].number)]))
                  ELSE NoneNum
        book   == SumOpt(BookValues(group))
        market == SumOpt(MarketValues(group))
        PerUnit(total) ==
            IF number = NoneNum \/ total = NoneNum THEN NoneNum
            ELSE IF Val(number) = 0 THEN NoneNum
            ELSE Some(RoundHalfEven(Val(total) * Scale, Val(number)))
    IN  [account       |-> IF \A i \in 1..Len(group) :
                                 group[i].account = group[1].account
                           THEN group[1].account ELSE NoneStr,
         number        |-> number,
         currency      |-> IF same THEN group[1].currency ELSE NoneStr,
         cost_currency |-> IF same THEN group[1].cost_currency ELSE NoneStr,
         cost_number   |-> PerUnit(book),
         price_number  |-> PerUnit(market),
         book_value    |-> book,
         market_value  |-> market,
         price_date    |-> IF \A i \in 1..Len(group) :
                                 group[i].price_date = group[1].price_date
                           THEN group[1].price_date ELSE NoneStr]

\* holdings.aggregate_holdings_by(holdings, lambda holding: holding.cost_currency)
aggregate_holdings_by_cost_currency(holdings) ==
    LET keys == KeysFrom(holdings, 1, {})
    IN  [k \in 1..Len(keys) |->
            AggregateGroup(SelectSeq(holdings,
                                     LAMBDA h : h.cost_currency = keys[k]))]

\* if holding.currency and holding.cost_currency
ValidHolding(holding) ==
    /\ holding.currency # NoneStr /\ holding.currency # ""
    /\ holding.cost_currency # NoneStr /\ holding.cost_currency # ""

NetWorthState(holdings, rows) == [holdings_list |-> holdings, net_worths |-> rows]

\* The body of "for currency in options_map['operating_currency']".
NetWorthBody(st, currency) ==
    LET currency_holdings_list == convert_to_currency(currency, st.holdings_list)
        aggregated == aggregate_holdings_by_cost_currency(currency_holdings_list)
        valid      == SelectSeq(aggregated, ValidHolding)
    IN  IF currency_holdings_list = <<>> THEN st
        ELSE IF valid = <<>> THEN NetWorthState(valid, st.net_worths)
        ELSE NetWorthState(valid,
                           Append(st.net_worths,
                                  <<currency, valid[1].market_value>>))

InitNW ==
    /\ nw_entries \in SeqsUpTo(HoldingPool, MaxHoldings)
    /\ nw_operating \in OperatingCurrencyOptions
    /\ nw_holdings_list = nw_entries
    /\ nw_pos = 0
    /\ net_worths = <<>>
    /\ nw_pc = "loop"

IdleNW ==
    /\ nw_entries = <<>>
    /\ nw_operating = <<>>
    /\ nw_holdings_list = <<>>
    /\ nw_pos = 0
    /\ net_worths = <<>>
    /\ nw_pc = "idle"

\* One iteration of the loop over the operating currencies.
NetWorthIteration ==
    /\ nw_pc = "loop"
    /\ nw_pos < Len(nw_operating)
    /\ LET st == NetWorthBody(NetWorthState(nw_holdings_list, net_worths),
                              nw_operating[nw_pos + 1])
       IN  /\ nw_holdings_list' = st.holdings_list
           /\ net_worths' = st.net_worths
    /\ nw_pos' = nw_pos + 1
    /\ UNCHANGED <<nw_entries, nw_operating, nw_pc>>
    /\ UNCHANGED <<vars_ofx, vars_mf, vars_csv, vars_ex, vars_hr>>

\* The loop is exhausted: table.create_table(net_worths, field_spec).
NetWorthTable ==
    /\ nw_pc = "loop"
    /\ nw_pos = Len(nw_operating)
    /\ nw_pc' = "done"
    /\ UNCHANGED <<nw_entries, nw_operating, nw_holdings_list, nw_pos,
                   net_worths>>
    /\ UNCHANGED <<vars_ofx, vars_mf, vars_csv, vars_ex, vars_hr>>

---------------------------------------------------------------------------
(* load_from_csv.  A cell of the file is a sequence of characters. *)

MaxColumns == 3
MaxLines == 2

\* (column name, attribute, converter): D for a Decimal, "" for none.
column_spec ==
    << <<"Account", "account", "">>,
       <<"Units", "number", "D">>,
       <<"Currency", "currency", "">>,
       <<"Cost Currency", "cost_currency", "">>,
       <<"Average Cost", "cost_number", "D">>,
       <<"Price", "price_number", "D">>,
       <<"Book Value", "book_value", "D">>,
       <<"Market Value", "market_value", "D">>,
       <<"Price Date", "price_date", "">> >>

ColumnNames == {column_spec[i][1] : i \in 1..Len(column_spec)}

\* column_dict[name]
ColumnDict(name) ==
    LET i == CHOOSE k \in 1..Len(column_spec) : column_spec[k][1] = name
    IN  <<column_spec[i][2], column_spec[i][3]>>

\* defaults_dict: every field of Holding is None.
DefaultsDict ==
    [account       |-> NoneStr, number       |-> NoneNum,
     currency      |-> NoneStr, cost_currency |-> NoneStr,
     cost_number   |-> NoneNum, price_number |-> NoneNum,
     book_value    |-> NoneNum, market_value |-> NoneNum,
     price_date    |-> NoneStr]

DigitValue(c) ==
    CASE c = "0" -> 0 [] c = "1" -> 1 [] c = "2" -> 2 [] c = "5" -> 5
      [] c = "7" -> 7 [] OTHER -> 9

RECURSIVE DigitsValue(_)
DigitsValue(chars) ==
    IF chars = <<>> THEN 0
    ELSE DigitsValue(SubSeq(chars, 1, Len(chars) - 1)) * 10
            + DigitValue(chars[Len(chars)])

\* D(value) for digits with at most one digit after a point: the Decimal, in
\* tenths.
D(chars) ==
    IF \E i \in 1..Len(chars) : chars[i] = "."
    THEN LET dot == CHOOSE i \in 1..Len(chars) : chars[i] = "."
         IN  Some(DigitsValue(SubSeq(chars, 1, dot - 1)) * Scale
                  + DigitsValue(SubSeq(chars, dot + 1, Len(chars))))
    ELSE Some(DigitsValue(chars) * Scale)

\* The header is readable when every name is a key of column_dict.
HeaderReadableAny(header) == TRUE

HeaderReadable(header) ==
    \A i \in 1..Len(header) : header[i] \in ColumnNames

\* attr_converters: column_dict[header_name] for each name of the header.
AttrConverters(header) == [i \in 1..Len(header) |-> ColumnDict(header[i])]

\* value_dict after the pairs k.. of zip(attr_converters, line).
RECURSIVE FillFrom(_, _, _, _)
FillFrom(value_dict, attr_converters, line, k) ==
    IF k > Len(attr_converters) \/ k > Len(line) THEN value_dict
    ELSE LET attr  == attr_converters[k][1]
             value == IF attr_converters[k][2] = "D" THEN D(line[k])
                      ELSE line[k]
         IN  FillFrom([value_dict EXCEPT ![attr] = value],
                      attr_converters, line, k + 1)

\* holdings.Holding(**value_dict) for one line.
HoldingOfLine(header, line) ==
    FillFrom(DefaultsDict, AttrConverters(header), line, 1)

HeaderNames == {"Account", "Units", "Currency", "Notes"}

\* The cells a column may hold.
CellValues(name) ==
    CASE name = "Account"  -> { <<"A", ":", "B">> }
      [] name = "Units"    -> { <<"1", "2">>, <<"7", ".", "5">> }
      [] name = "Currency" -> { <<"U", "S", "D">>, <<"A", "A", "A">> }
      [] OTHER             -> { <<"x">> }

AllCells == UNION {CellValues(name) : name \in HeaderNames}

LinesOf(header) ==
    { line \in [1..Len(header) -> AllCells] :
        \A i \in 1..Len(header) : line[i] \in CellValues(header[i]) }

InitCSV ==
    /\ csv_header \in SeqsUpTo(HeaderNames, MaxColumns) \ {<<>>}
    /\ csv_lines \in SeqsUpTo(LinesOf(csv_header), MaxLines)
    /\ csv_pos = 0
    /\ csv_yielded = <<>>
    /\ csv_pc = "header"

IdleCSV ==
    /\ csv_header = <<>>
    /\ csv_lines = <<>>
    /\ csv_pos = 0
    /\ csv_yielded = <<>>
    /\ csv_pc = "idle"

\* header = next(reader) and the loop over its names, all of them known.
ReadHeader ==
    /\ csv_pc = "header"
    /\ HeaderReadable(csv_header)
    /\ csv_pc' = "lines"
    /\ UNCHANGED <<csv_header, csv_lines, csv_pos, csv_yielded>>
    /\ UNCHANGED <<vars_ofx, vars_mf, vars_nw, vars_ex, vars_hr>>

\* The loop over the header names meets a KeyError: IOError is raised.
ReadHeaderRaises ==
    /\ csv_pc = "header"
    /\ ~HeaderReadable(csv_header)
    /\ csv_pc' = "error"
    /\ UNCHANGED <<csv_header, csv_lines, csv_pos, csv_yielded>>
    /\ UNCHANGED <<vars_ofx, vars_mf, vars_nw, vars_ex, vars_hr>>

\* One iteration of "for line in reader": a Holding is yielded.
YieldHolding ==
    /\ csv_pc = "lines"
    /\ csv_pos < Len(csv_lines)
    /\ csv_yielded' =
          Append(csv_yielded, HoldingOfLine(csv_header, csv_lines[csv_pos + 1]))
    /\ csv_pos' = csv_pos + 1
    /\ UNCHANGED <<csv_header, csv_lines, csv_pc>>
    /\ UNCHANGED <<vars_ofx, vars_mf, vars_nw, vars_ex, vars_hr>>

\* The reader is exhausted: the generator returns.
EndOfFile ==
    /\ csv_pc = "lines"
    /\ csv_pos = Len(csv_lines)
    /\ csv_pc' = "done"
    /\ UNCHANGED <<csv_header, csv_lines, csv_pos, csv_yielded>>
    /\ UNCHANGED <<vars_ofx, vars_mf, vars_nw, vars_ex, vars_hr>>

---------------------------------------------------------------------------
(* export_holdings *)

\* getters.get_values_meta(commodities_map, 'ticker') followed by
\* tickers.get(holding.currency, None): a commodity without ticker metadata
\* has the value None, as a currency without commodity entry has.
ExportTickersGet(currency) ==
    IF TickersGet(currency) = TickerUndefined THEN TickerNone
    ELSE TickersGet(currency)

ElifTickerAlways(ticker) == TRUE

\* elif ticker:
ElifTicker(ticker) == ticker # TickerNone /\ ticker # <<>>

Buckets(export, convert, ignore) ==
    [holdings_export  |-> export,
     holdings_convert |-> convert,
     holdings_ignore  |-> ignore]

\* The body of "for holding in holdings_list" that classifies the holdings.
ClassifyBody(st, holding) ==
    LET ticker == ExportTickersGet(holding.currency)
    IN  IF IsCashMarker(ticker)
        THEN Buckets(st.holdings_export,
                     Append(st.holdings_convert, holding),
                     st.holdings_ignore)
        ELSE IF ElifTicker(ticker)
        THEN Buckets(Append(st.holdings_export, holding),
                     st.holdings_convert,
                     st.holdings_ignore)
        ELSE Buckets(st.holdings_export,
                     st.holdings_convert,
                     Append(st.holdings_ignore, holding))

\* ExportEntry(ticker, number, cost_number, mutual_fund, memo)
ExportEntry(holding, args_promiscuous) ==
    LET ticker == ExportTickersGet(holding.currency)
    IN  [ticker      |-> ticker,
         number      |-> holding.number,
         cost_number |-> holding.cost_number,
         mutual_fund |-> is_mutual_fund(ticker),
         memo        |-> IF args_promiscuous THEN holding.account ELSE ""]

InitEx ==
    /\ ex_holdings_list \in SeqsUpTo(HoldingPool, MaxHoldings)
    /\ ex_promiscuous \in BOOLEAN
    /\ ex_pos = 0
    /\ holdings_export = <<>>
    /\ holdings_convert = <<>>
    /\ holdings_ignore = <<>>
    /\ exported = <<>>
    /\ ex_pc = "classify"

\* export_holdings is not running.
IdleEx ==
    /\ ex_holdings_list = <<>>
    /\ ex_promiscuous = FALSE
    /\ ex_pos = 0
    /\ holdings_export = <<>>
    /\ holdings_convert = <<>>
    /\ holdings_ignore = <<>>
    /\ exported = <<>>
    /\ ex_pc = "idle"

\* One iteration of the loop that classifies the holdings.
ClassifyHolding ==
    /\ ex_pc = "classify"
    /\ ex_pos < Len(ex_holdings_list)
    /\ LET st == ClassifyBody(Buckets(holdings_export, holdings_convert,
                                      holdings_ignore),
                              ex_holdings_list[ex_pos + 1])
       IN  /\ holdings_export' = st.holdings_export
           /\ holdings_convert' = st.holdings_convert
           /\ holdings_ignore' = st.holdings_ignore
    /\ ex_pos' = ex_pos + 1
    /\ UNCHANGED <<ex_holdings_list, ex_promiscuous, exported, ex_pc>>
    /\ UNCHANGED <<vars_ofx, vars_mf, vars_nw, vars_csv, vars_hr>>

\* The classifying loop is exhausted; the exporting loop starts.
ClassifyExit ==
    /\ ex_pc = "classify"
    /\ ex_pos = Len(ex_holdings_list)
    /\ ex_pos' = 0
    /\ ex_pc' = "export"
    /\ UNCHANGED <<ex_holdings_list, ex_promiscuous, holdings_export,
                   holdings_convert, holdings_ignore, exported>>
    /\ UNCHANGED <<vars_ofx, vars_mf, vars_nw, vars_csv, vars_hr>>

\* One iteration of "for holding in holdings_export".
ExportHolding ==
    /\ ex_pc = "export"
    /\ ex_pos < Len(holdings_export)
    /\ exported' = Append(exported,
                          ExportEntry(holdings_export[ex_pos + 1],
                                      ex_promiscuous))
    /\ ex_pos' = ex_pos + 1
    /\ UNCHANGED <<ex_holdings_list, ex_promiscuous, holdings_export,
                   holdings_convert, holdings_ignore, ex_pc>>
    /\ UNCHANGED <<vars_ofx, vars_mf, vars_nw, vars_csv, vars_hr>>

\* return exported, debug_info
ExportReturn ==
    /\ ex_pc = "export"
    /\ ex_pos = Len(holdings_export)
    /\ ex_pc' = "done"
    /\ UNCHANGED <<ex_holdings_list, ex_promiscuous, ex_pos, holdings_export,
                   holdings_convert, holdings_ignore, exported>>
    /\ UNCHANGED <<vars_ofx, vars_mf, vars_nw, vars_csv, vars_hr>>

---------------------------------------------------------------------------
(* HoldingsReport: __init__, generate_table and report_holdings *)

MaxReportHoldings == 2

\* The values of --currency, --relative and --groupby the parser accepts.
CurrencyArguments == {NoneStr, "", "USD", "CAD"}
GroupbyArguments ==
    {NoneStr, "commodity", "account", "root-account", "currency"}

Args(relative, currency, groupby) ==
    [relative |-> relative, currency |-> currency, groupby |-> groupby]

\* Python's truth value of a string or None.
Truthy(string) == string # NoneStr /\ string # ""

RelativeNeedsCurrencyUnchecked(args) == FALSE

\* if self.args.relative and not self.args.currency
RelativeNeedsCurrency(args) == args.relative /\ ~Truthy(args.currency)

\* account.root(3, account_name): the first three components of the name; the
\* accounts of the ledger have two.
root3(account_name) == account_name

\* HoldingsReport.aggregations[groupby]['aggregation_key'](holding)
aggregation_key(groupby, holding) ==
    CASE groupby = "commodity"    -> holding.currency
      [] groupby = "account"      -> holding.account
      [] groupby = "root-account" -> root3(holding.account)
      [] groupby = "currency"     -> holding.cost_currency

\* 'sort_key' in HoldingsReport.aggregations[groupby]
HasSortKey(groupby) == groupby = "root-account"

\* holdings.aggregate_holdings_by(holdings_list, aggregation_key): one combined
\* holding per key, in the order in which the keys first occur.
aggregate_holdings_by(holdings, groupby) ==
    LET first == SelectSeq([i \in 1..Len(holdings) |-> i],
                           LAMBDA i : \A j \in 1..(i - 1) :
                               aggregation_key(groupby, holdings[j])
                                  # aggregation_key(groupby, holdings[i]))
    IN  [k \in 1..Len(first) |->
            AggregateGroup(
                SelectSeq(holdings,
                          LAMBDA h : aggregation_key(groupby, h)
                                       = aggregation_key(groupby,
                                                         holdings[first[k]])))]

\* The quotient value / total as a pair <<numerator, denominator>> with a
\* positive denominator.
Fraction(value, total) ==
    IF total > 0 THEN <<value, total>> ELSE <<-value, -total>>

\* holdings.reduce_relative(holdings_list): market values become fractions of
\* their total, book value and number are cleared.
reduce_relative(holdings) ==
    LET defined == SelectSeq(MarketValues(holdings), LAMBDA v : v # NoneNum)
        total   == SumValues(defined)
    IN  [i \in 1..Len(holdings) |->
            [holdings[i] EXCEPT
                !.number       = NoneNum,
                !.book_value   = NoneNum,
                !.market_value =
                    IF total = 0 \/ holdings[i].market_value = NoneNum
                    THEN NoneNum
                    ELSE Some(Fraction(Val(holdings[i].market_value), total))]]

\* sort_key: holding.market_value or amount.ZERO, as a pair
\* <<numerator, denominator>>.
sort_key(holding, relative) ==
    IF holding.market_value = NoneNum THEN <<0, 1>>
    ELSE IF relative THEN Val(holding.market_value)
    ELSE <<Val(holding.market_value), 1>>

KeyLess(a, b) == a[1] * b[2] < b[1] * a[2]

\* holdings_list.sort(key=sort_key, reverse=True): descending and stable.
RECURSIVE SortReverse(_, _)
SortReverse(holdings, relative) ==
    IF holdings = <<>> THEN <<>>
    ELSE LET n      == Len(holdings)
             sorted == SortReverse(SubSeq(holdings, 1, n - 1), relative)
             key    == sort_key(holdings[n], relative)
             before == Cardinality({i \in 1..Len(sorted) :
                          ~KeyLess(sort_key(sorted[i], relative), key)})
         IN  SubSeq(sorted, 1, before) \o <<holdings[n]>>
                \o SubSeq(sorted, before + 1, Len(sorted))

\* The attribute and the header of each column.
FIELD_SPEC ==
    << <<"account", "Account">>, <<"number", "Units">>,
       <<"currency", "Currency">>, <<"cost_currency", "Cost Currency">>,
       <<"cost_number", "Average Cost">>, <<"price_number", "Price">>,
       <<"book_value", "Book Value">>, <<"market_value", "Market Value">> >>

RELATIVE_FIELD_SPEC ==
    SelectSeq(FIELD_SPEC,
              LAMBDA field_desc :
                  field_desc[1] \notin {"account", "number", "book_value",
                                        "market_value"})
       \o << <<"market_value", "Frac Folio">> >>

\* table.create_table(holdings_list, field_spec): the headers and, for each
\* holding, the values of the attributes of the field spec.
create_table(holdings, field_spec) ==
    [header |-> [c \in 1..Len(field_spec) |-> field_spec[c][2]],
     rows   |-> [i \in 1..Len(holdings) |->
                    [c \in 1..Len(field_spec) |->
                        holdings[i][field_spec[c][1]]]]]

InitHR ==
    /\ hr_args \in {Args(relative, currency, groupby) :
                       relative \in BOOLEAN,
                       currency \in CurrencyArguments,
                       groupby \in GroupbyArguments}
    /\ hr_entries \in SeqsUpTo(HoldingPool, MaxReportHoldings)
    /\ hr_holdings_list = <<>>
    /\ hr_field_spec = <<>>
    /\ hr_table = <<>>
    /\ hr_pc = "new"

\* No HoldingsReport is being built.
IdleHR ==
    /\ hr_args = Args(FALSE, NoneStr, NoneStr)
    /\ hr_entries = <<>>
    /\ hr_holdings_list = <<>>
    /\ hr_field_spec = <<>>
    /\ hr_table = <<>>
    /\ hr_pc = "idle"

\* HoldingsReport(args, parser) returns the report.
Construct ==
    /\ hr_pc = "new"
    /\ ~RelativeNeedsCurrency(hr_args)
    /\ hr_pc' = "constructed"
    /\ UNCHANGED <<hr_args, hr_entries, hr_holdings_list, hr_field_spec,
                   hr_table>>
    /\ UNCHANGED <<vars_ofx, vars_mf, vars_nw, vars_csv, vars_ex>>

\* HoldingsReport(args, parser) ends in parser.error(...).
ConstructRaises ==
    /\ hr_pc = "new"
    /\ RelativeNeedsCurrency(hr_args)
    /\ hr_pc' = "error"
    /\ UNCHANGED <<hr_args, hr_entries, hr_holdings_list, hr_field_spec,
                   hr_table>>
    /\ UNCHANGED <<vars_ofx, vars_mf, vars_nw, vars_csv, vars_ex>>

\* generate_table calls report_holdings, which calls get_assets_holdings with
\* the currency: the holdings are fetched, and converted when a currency is
\* given.  hr_holdings_list is <<>> before and <<the list>> after.
GetAssetsHoldings ==
    /\ hr_pc = "constructed"
    /\ hr_holdings_list' =
          <<IF Truthy(hr_args.currency)
            THEN convert_to_currency(hr_args.currency, hr_entries)
            ELSE hr_entries>>
    /\ hr_pc' = "fetched"
    /\ UNCHANGED <<hr_args, hr_entries, hr_field_spec, hr_table>>
    /\ UNCHANGED <<vars_ofx, vars_mf, vars_nw, vars_csv, vars_ex>>

\* if aggregation_key: holdings_list = aggregate_holdings_by(...)
AggregateHoldings ==
    /\ hr_pc = "fetched"
    /\ hr_holdings_list' =
          <<IF Truthy(hr_args.groupby)
            THEN aggregate_holdings_by(hr_holdings_list[1], hr_args.groupby)
            ELSE hr_holdings_list[1]>>
    /\ hr_pc' = "aggregated"
    /\ UNCHANGED <<hr_args, hr_entries, hr_field_spec, hr_table>>
    /\ UNCHANGED <<vars_ofx, vars_mf, vars_nw, vars_csv, vars_ex>>

\* if relative: reduce_relative and RELATIVE_FIELD_SPEC, else FIELD_SPEC.
ReduceRelative ==
    /\ hr_pc = "aggregated"
    /\ hr_holdings_list' =
          <<IF hr_args.relative
            THEN reduce_relative(hr_holdings_list[1])
            ELSE hr_holdings_list[1]>>
    /\ hr_field_spec' =
          IF hr_args.relative THEN RELATIVE_FIELD_SPEC ELSE FIELD_SPEC
    /\ hr_pc' = "reduced"
    /\ UNCHANGED <<hr_args, hr_entries, hr_table>>
    /\ UNCHANGED <<vars_ofx, vars_mf, vars_nw, vars_csv, vars_ex>>

\* if sort_key: holdings_list.sort(...); return table.create_table(...)
CreateTable ==
    /\ hr_pc = "reduced"
    /\ LET sorted == IF Truthy(hr_args.groupby) /\ HasSortKey(hr_args.groupby)
                     THEN SortReverse(hr_holdings_list[1], hr_args.relative)
                     ELSE hr_holdings_list[1]
       IN  /\ hr_holdings_list' = <<sorted>>
           /\ hr_table' = <<create_table(sorted, hr_field_spec)>>
    /\ hr_pc' = "done"
    /\ UNCHANGED <<hr_args, hr_entries, hr_field_spec>>
    /\ UNCHANGED <<vars_ofx, vars_mf, vars_nw, vars_csv, vars_ex>>

---------------------------------------------------------------------------
(* Specifications *)

\* ExportPortfolioReport.render_ofx
Init == InitOfx /\ IdleMF /\ IdleNW /\ IdleCSV /\ IdleEx /\ IdleHR
Next == NextOfx
Spec == Init /\ [][Next]_vars

\* is_mutual_fund
InitMutualFund == InitMF /\ IdleOfx /\ IdleNW /\ IdleCSV /\ IdleEx /\ IdleHR
NextMutualFund == CallIsMutualFund
SpecMutualFund == InitMutualFund /\ [][NextMutualFund]_vars

\* NetWorthReport.generate_table
InitNetWorth == InitNW /\ IdleOfx /\ IdleMF /\ IdleCSV /\ IdleEx /\ IdleHR
NextNetWorth == NetWorthIteration \/ NetWorthTable
SpecNetWorth == InitNetWorth /\ [][NextNetWorth]_vars

\* export_holdings
InitExportHoldings ==
    InitEx /\ IdleOfx /\ IdleMF /\ IdleNW /\ IdleCSV /\ IdleHR
NextExportHoldings ==
    ClassifyHolding \/ ClassifyExit \/ ExportHolding \/ ExportReturn
SpecExportHoldings == InitExportHoldings /\ [][NextExportHoldings]_vars

\* HoldingsReport
InitHoldingsReport ==
    InitHR /\ IdleOfx /\ IdleMF /\ IdleNW /\ IdleCSV /\ IdleEx
NextHoldingsReport ==
    \/ Construct
    \/ ConstructRaises
    \/ GetAssetsHoldings
    \/ AggregateHoldings
    \/ ReduceRelative
    \/ CreateTable
SpecHoldingsReport == InitHoldingsReport /\ [][NextHoldingsReport]_vars

\* load_from_csv
InitLoadCsv == InitCSV /\ IdleOfx /\ IdleMF /\ IdleNW /\ IdleEx /\ IdleHR
NextLoadCsv == ReadHeader \/ ReadHeaderRaises \/ YieldHolding \/ EndOfFile
SpecLoadCsv == InitLoadCsv /\ [][NextLoadCsv]_vars


---------------------------------------------------------------------------
(* Properties of render_ofx (specification Spec) *)

\* The holdings the loop has consumed so far.
Consumed == SubSeq(holdings_list, 1, pos)

\* The currency has no ticker: no commodity entry, no ticker metadata, or an
\* empty ticker.
NoTicker(currency) ==
    TickersGet(currency) \in {TickerNone, TickerUndefined, <<>>}

\* The three conditions under which a holding is left out of individual export.
LeftOut(holding) ==
    \/ holding.currency = holding.cost_currency
    \/ holding.cost_number = NoneNum
    \/ NoTicker(holding.currency)

Bought(holding) == ~LeftOut(holding)

\* The number of transactions after the individual ones.
ExtraTransactions == Len(invtranlist) - (pos - Len(skipped_holdings))

\* What a skipped holding adds to a total in cash_currency: its value when it is
\* valued in cash_currency, its value at the rate when there is one, nothing
\* otherwise.
Contribution(value, cost_currency, cash_currency) ==
    IF cost_currency = cash_currency THEN Val(value)
    ELSE IF <<cost_currency, cash_currency>> \in DOMAIN price_map
    THEN Mul(Val(value), price_map[<<cost_currency, cash_currency>>])
    ELSE 0

SkippedMarketValue(cash_currency) ==
    SumSeq([i \in 1..Len(skipped_holdings) |->
              Contribution(skipped_holdings[i].market_value,
                           skipped_holdings[i].cost_currency, cash_currency)])

SkippedBookValue(cash_currency) ==
    SumSeq([i \in 1..Len(skipped_holdings) |->
              Contribution(skipped_holdings[i].book_value,
                           skipped_holdings[i].cost_currency, cash_currency)])

\* C1: a holding whose ticker is the cash marker ("cash" in any letter case) is
\* in the skipped list and no transaction is written for its ticker, whatever
\* its currency, cost currency and cost are.
C1_CashMarkerNeverBought ==
    \A i \in 1..pos :
        IsCashMarker(TickersGet(holdings_list[i].currency)) =>
            /\ \E j \in 1..Len(skipped_holdings) :
                  skipped_holdings[j] = holdings_list[i]
            /\ \A k \in 1..Len(invtranlist) :
                  invtranlist[k].uniqueid # TickersGet(holdings_list[i].currency)

\* C2: with an operating currency configured, render_ofx ends without an error,
\* having written one cash-equivalent transaction when the market value of the
\* included skipped holdings is nonzero and none when it is zero.
C2_OneCashTransactionIffNonzero ==
    (operating_currency # <<>> /\ pc \in {"seclist", "done", "error"}) =>
        /\ pc # "error"
        /\ ExtraTransactions =
              IF SkippedMarketValue(operating_currency[1]) # 0 THEN 1 ELSE 0

\* The (currency, ticker, mutual_fund) triple of the k-th transaction written:
\* an individual transaction is the one of holding number fitid; mutual_fund is
\* the flag that chose BUYMF.
TransactionTriple(k) ==
    IF k <= Len(holdings_list) - Len(skipped_holdings)
    THEN <<holdings_list[invtranlist[k].fitid].currency,
           invtranlist[k].uniqueid,
           invtranlist[k].txntype = "BUYMF">>
    ELSE <<CASH_EQUIVALENT_CURRENCY_CODE,
           invtranlist[k].uniqueid,
           invtranlist[k].txntype = "BUYMF">>

SecurityTriple(security) ==
    <<security.uniqueid, security.ticker, security.infotype = "MFINFO">>

\* C5: the security list of the document is the set of the triples of the
\* transactions written, each once, in ascending order of currency.
C5_SecurityListIsTransactionTriples ==
    pc = "done" =>
        LET seclist == file[1].seclist
            triples == {TransactionTriple(k) : k \in 1..Len(invtranlist)}
        IN  /\ {SecurityTriple(seclist[i]) : i \in 1..Len(seclist)} = triples
            /\ Len(seclist) = Cardinality(triples)
            /\ \A i, j \in 1..Len(seclist) :
                  i < j => CurrencyRank(seclist[i].uniqueid)
                              <= CurrencyRank(seclist[j].uniqueid)

OtherAccounts == {"Assets:Bank", "Liabilities:Card"}
OtherTitle == "Another Ledger"

\* The holdings lists that differ from holdings_list in account names only.
Renamed ==
    { [i \in 1..Len(holdings_list) |->
         [holdings_list[i] EXCEPT !.account = f[i]]] :
      f \in [1..Len(holdings_list) -> OtherAccounts] }

\* C7: with promiscuous unset, every memo and the ACCTID of the document are
\* empty, and an export of holdings that differ only in account names, from a
\* ledger of another title, ends the same way with the same document.
C7_NoAccountIdentifier ==
    (pc \in {"done", "error"} /\ ~promiscuous) =>
        /\ \A k \in 1..Len(invtranlist) : invtranlist[k].memo = ""
        /\ pc = "done" => file[1].account = ""
        /\ \A other \in Renamed :
              RenderOfx(other, operating_currency, FALSE, OtherTitle) = file

C7_Witness ==
    /\ pc = "done"
    /\ ~promiscuous
    /\ Len(file[1].invtranlist) = 3
    /\ Len(skipped_holdings) = 1
    /\ holdings_list[1].account # holdings_list[2].account

\* C8: the skipped list is, in order, the consumed holdings with currency equal
\* to cost currency, without cost or without ticker; the transactions start
\* with one buy per other consumed holding, in order (units = number, unit
\* price = cost_number, no fee, total = -(number * cost_number)); only the
\* cash equivalent may follow them.
C8_SkippedOrBoughtInOrder ==
    LET bought == SelectSeq(Consumed, Bought)
    IN  /\ skipped_holdings = SelectSeq(Consumed, LeftOut)
        /\ Len(invtranlist) >= Len(bought)
        /\ \A k \in 1..Len(bought) :
              /\ invtranlist[k].uniqueid = TickersGet(bought[k].currency)
              /\ invtranlist[k].units = bought[k].number
              /\ invtranlist[k].unitprice = bought[k].cost_number
              /\ invtranlist[k].fee = 0
              /\ invtranlist[k].total =
                    -(Val(bought[k].number) * Val(bought[k].cost_number))
              /\ invtranlist[k].buytype = "BUY"
        /\ Len(invtranlist) > Len(bought) =>
              /\ pc \in {"seclist", "done"}
              /\ Len(invtranlist) = Len(bought) + 1
              /\ invtranlist[Len(invtranlist)].uniqueid = CASH_EQUIVALENT_CURRENCY

C8_Witness ==
    /\ pc = "done"
    /\ Len(skipped_holdings) = 1
    /\ Len(invtranlist) = 3
    /\ holdings_list[2] = skipped_holdings[1]
    /\ holdings_list[2].currency # holdings_list[2].cost_currency
    /\ holdings_list[1].currency # holdings_list[3].currency

\* C9: without operating currency the cash-equivalent branch is not entered,
\* and the document holds the individual transactions and their securities
\* only: nothing for the cash equivalent, nothing for a skipped holding.
C9_NoCashEquivalentWithoutOperatingCurrency ==
    operating_currency = <<>> =>
        /\ pc \notin {"cash", "error"}
        /\ pc = "done" =>
              LET bought == SelectSeq(holdings_list, Bought)
              IN  /\ Len(file[1].invtranlist) = Len(bought)
                  /\ \A k \in 1..Len(bought) :
                        file[1].invtranlist[k].uniqueid =
                           TickersGet(bought[k].currency)
                  /\ {file[1].seclist[i].uniqueid :
                         i \in 1..Len(file[1].seclist)}
                        = {bought[k].currency : k \in 1..Len(bought)}
                  /\ \A i \in 1..Len(file[1].seclist) :
                        file[1].seclist[i].uniqueid
                           # CASH_EQUIVALENT_CURRENCY_CODE

C9_Witness ==
    /\ operating_currency = <<>>
    /\ pc = "done"
    /\ Len(skipped_holdings) = 2
    /\ skipped_holdings[1].market_value # NoneNum
    /\ Val(skipped_holdings[1].market_value) # 0
    /\ Len(file[1].invtranlist) = 1

\* C10: the cash-equivalent transaction counts the skipped holdings valued in
\* the first operating currency, as they are or at the rate of the price map;
\* a skipped holding without rate adds nothing to its units and unit price.
C10_CashEquivalentFromConvertedOnly ==
    (operating_currency # <<>> /\ pc \in {"seclist", "done"}) =>
        LET cash == invtranlist[Len(invtranlist)]
            cur  == operating_currency[1]
        IN  /\ cash.uniqueid = CASH_EQUIVALENT_CURRENCY
            /\ cash.units = Some(Quantize(SkippedMarketValue(cur), cur))
            /\ cash.unitprice =
                  Some(QuantizeQuotient(SkippedBookValue(cur),
                                        SkippedMarketValue(cur), cur))

C10_Witness ==
    /\ operating_currency = <<"CAD", "USD">>
    /\ pc = "done"
    /\ Len(skipped_holdings) = 3
    /\ skipped_holdings[1].cost_currency = "GBP"
    /\ skipped_holdings[2].cost_currency = "EUR"
    /\ skipped_holdings[3].cost_currency = "USD"
    /\ Val(skipped_holdings[2].market_value) = 5
    /\ Val(skipped_holdings[3].market_value) = 50
    /\ file[1].invtranlist[1].units = Some(60)

\* C13: the transactions written into one document have pairwise distinct
\* FITIDs, the cash-equivalent transaction included.
C13_DistinctFitids ==
    \A i, j \in 1..Len(invtranlist) :
        i # j => invtranlist[i].fitid # invtranlist[j].fitid

\* The characters of a currency code.
CodeChars(currency) ==
    CASE currency = "AAA"   -> <<"A", "A", "A">>
      [] currency = "CAD"   -> <<"C", "A", "D">>
      [] currency = "CSH"   -> <<"C", "S", "H">>
      [] currency = "EMP"   -> <<"E", "M", "P">>
      [] currency = "EUR"   -> <<"E", "U", "R">>
      [] currency = "GBP"   -> <<"G", "B", "P">>
      [] currency = "GGG"   -> <<"G", "G", "G">>
      [] currency = "HOME"  -> <<"H", "O", "M", "E">>
      [] currency = "RBF"   -> <<"R", "B", "F">>
      [] currency = "USD"   -> <<"U", "S", "D">>
      [] currency = "VFX"   -> <<"V", "F", "X">>
      [] currency = "VMMXX" -> CASH_EQUIVALENT_CURRENCY

\* C15: for every transaction of the document written, the security list of
\* the document has an entry whose UNIQUEID is the UNIQUEID of the
\* transaction's SECID.
C15_TransactionSecurityDeclared ==
    pc = "done" =>
        \A k \in 1..Len(file[1].invtranlist) :
            \E i \in 1..Len(file[1].seclist) :
                CodeChars(file[1].seclist[i].uniqueid)
                    = file[1].invtranlist[k].uniqueid

---------------------------------------------------------------------------
(* Properties of is_mutual_fund (specification SpecMutualFund) *)

StartsWith(text, prefix) ==
    /\ Len(text) >= Len(prefix)
    /\ SubSeq(text, 1, Len(prefix)) = prefix

\* C3, as claimed: is_mutual_fund is true exactly for the tickers that start
\* with "MUTF" immediately followed by a colon.
C3_TrueIffPrefixThenColon ==
    mf_result # <<>> =>
        (mf_result[1] <=> StartsWith(mf_ticker, <<"M", "U", "T", "F", ":">>))

\* C3, amended: is_mutual_fund is true exactly for the tickers that start with
\* "MUTF" and have a colon after it, with no line break between the prefix and
\* that colon; other characters may stand there.
C3_TrueIffPrefixAndLaterColon ==
    mf_result # <<>> =>
        (mf_result[1] <=>
            /\ StartsWith(mf_ticker, <<"M", "U", "T", "F">>)
            /\ \E j \in 5..Len(mf_ticker) :
                  /\ mf_ticker[j] = ":"
                  /\ \A k \in 5..(j - 1) : mf_ticker[k] # "\n")

C3_Witness ==
    /\ mf_result = <<TRUE>>
    /\ Len(mf_ticker) = 7
    /\ mf_ticker[5] = "X"
    /\ mf_ticker[7] = ":"

---------------------------------------------------------------------------
(* Properties of NetWorthReport.generate_table (specification SpecNetWorth) *)

\* The holdings of the ledger valued in currency once converted to it.
ConvertedTo(currency) ==
    SelectSeq(convert_to_currency(currency, nw_entries),
              LAMBDA h : h.cost_currency = currency)

RECURSIVE RowsFromEntries(_, _)
RowsFromEntries(cs, i) ==
    IF i > Len(cs) THEN <<>>
    ELSE NetWorthBody(NetWorthState(nw_entries, <<>>), cs[i]).net_worths
            \o RowsFromEntries(cs, i + 1)

\* C14: the list an iteration of the operating-currency loop converts is the
\* list of the holdings of the ledger, and the rows so far are those each
\* currency yields when it is processed on that list, whatever was processed
\* before it.
C14_LoopLeavesHoldingsUnchanged ==
    /\ (nw_pc = "loop" /\ nw_pos < Len(nw_operating)) =>
           nw_holdings_list = nw_entries
    /\ nw_pc \in {"loop", "done"} =>
           net_worths = RowsFromEntries(SubSeq(nw_operating, 1, nw_pos), 1)

---------------------------------------------------------------------------
(* Properties of load_from_csv (specification SpecLoadCsv) *)

\* The columns of the header that set attribute attr.
ColumnsOf(header, attr) ==
    { i \in 1..Len(header) :
        header[i] \in ColumnNames /\ ColumnDict(header[i])[1] = attr }

Last(S) == CHOOSE i \in S : \A j \in S : j <= i

\* The value of attribute attr in the Holding of a line: the cell of the last
\* column that sets it, as a Decimal for a numeric column; None without one.
FieldOfLine(header, line, attr) ==
    IF ColumnsOf(header, attr) = {} THEN DefaultsDict[attr]
    ELSE LET i == Last(ColumnsOf(header, attr))
         IN  IF ColumnDict(header[i])[2] = "D" THEN D(line[i]) ELSE line[i]

\* C6, as claimed: the load never fails on a header; a column whose name is
\* not recognized is skipped and every line yields a Holding.
C6_UnknownColumnIgnored ==
    /\ csv_pc # "error"
    /\ csv_pc = "done" => Len(csv_yielded) = Len(csv_lines)

\* C6, amended: a header with a column whose name is not recognized makes the
\* load raise before any Holding is yielded, and only such a header does; with
\* every column recognized each line yields the Holding of its cells.
C6_UnknownColumnRaises ==
    /\ (\E i \in 1..Len(csv_header) : csv_header[i] \notin ColumnNames) =>
          /\ csv_pc \in {"header", "error"}
          /\ csv_yielded = <<>>
    /\ csv_pc = "error" =>
          \E i \in 1..Len(csv_header) : csv_header[i] \notin ColumnNames
    /\ csv_pc = "done" =>
          /\ Len(csv_yielded) = Len(csv_lines)
          /\ \A k \in 1..Len(csv_lines) : \A attr \in DOMAIN DefaultsDict :
                csv_yielded[k][attr] =
                   FieldOfLine(csv_header, csv_lines[k], attr)

C6_Witness ==
    /\ csv_pc = "error"
    /\ Len(csv_header) = 3
    /\ csv_header[1] = "Account"
    /\ csv_header[2] = "Notes"
    /\ csv_header[3] = "Units"
    /\ Len(csv_lines) = 2
    /\ csv_yielded = <<>>

---------------------------------------------------------------------------
(* Properties of export_holdings (specification SpecExportHoldings) *)

\* The holdings the classifying loop has consumed so far.
Classified ==
    IF ex_pc = "classify" THEN SubSeq(ex_holdings_list, 1, ex_pos)
    ELSE ex_holdings_list

Elements(sequence) == {sequence[i] : i \in 1..Len(sequence)}

Occurrences(sequence, element) ==
    Cardinality({i \in 1..Len(sequence) : sequence[i] = element})

\* The bucket has the holdings of the input that are in it, in input order.
KeepsInputOrder(bucket) ==
    bucket = SelectSeq(Classified, LAMBDA holding : holding \in Elements(bucket))

\* The currency has no ticker entry: no commodity entry, or a commodity
\* without ticker metadata.
NoTickerEntry(currency) ==
    TickersGet(currency) \in {TickerNone, TickerUndefined}

\* C12: the three buckets of the classifier are pairwise disjoint, together
\* they hold every holding classified as often as the input has it, each
\* bucket is in input order, and a holding whose currency has no ticker entry
\* is in the ignored bucket.
C12_BucketsPartitionInput ==
    ex_pc \in {"classify", "export", "done"} =>
        /\ Elements(holdings_export) \cap Elements(holdings_convert) = {}
        /\ Elements(holdings_export) \cap Elements(holdings_ignore) = {}
        /\ Elements(holdings_convert) \cap Elements(holdings_ignore) = {}
        /\ \A holding \in HoldingPool :
              Occurrences(Classified, holding)
                 = Occurrences(holdings_export, holding)
                   + Occurrences(holdings_convert, holding)
                   + Occurrences(holdings_ignore, holding)
        /\ KeepsInputOrder(holdings_export)
        /\ KeepsInputOrder(holdings_convert)
        /\ KeepsInputOrder(holdings_ignore)
        /\ \A i \in 1..Len(Classified) :
              NoTickerEntry(Classified[i].currency) =>
                 Classified[i] \in Elements(holdings_ignore)

C12_Witness ==
    /\ ex_pc = "done"
    /\ Len(ex_holdings_list) = 3
    /\ Len(holdings_export) = 1
    /\ Len(holdings_convert) = 1
    /\ Len(holdings_ignore) = 1
    /\ NoTickerEntry(holdings_ignore[1].currency)
    /\ Len(exported) = 1

---------------------------------------------------------------------------
(* Properties of HoldingsReport (specification SpecHoldingsReport) *)

\* Nothing was fetched, converted, aggregated, reduced or rendered.
NothingProcessed ==
    /\ hr_holdings_list = <<>>
    /\ hr_field_spec = <<>>
    /\ hr_table = <<>>

\* C11: a report asked to be relative without a target currency (none, or an
\* empty one) never gets past its construction, which ends in the error with
\* nothing processed; a report that is not relative, or has a target currency,
\* never ends in the error.
C11_RelativeWithoutCurrencyRejected ==
    hr_pc # "idle" =>
        /\ (hr_args.relative /\ hr_args.currency \in {NoneStr, ""}) =>
              (hr_pc \in {"new", "error"} /\ NothingProcessed)
        /\ (~hr_args.relative \/ hr_args.currency \notin {NoneStr, ""}) =>
              hr_pc # "error"
        /\ hr_pc = "error" => NothingProcessed

C11_Witness ==
    /\ hr_pc = "error"
    /\ hr_args.relative
    /\ hr_args.currency = NoneStr
    /\ Len(hr_entries) = 2
    /\ hr_holdings_list = <<>>

====
